---- MODULE Spec2Model ----
(***************************************************************************)
(* Model of the side handlers of parcel-css (margin, padding,              *)
(* scroll-margin, scroll-padding, inset: src/properties/margin_padding.rs) *)
(* and of the PropertyHandlerContext they write their side-outputs to      *)
(* (src/context.rs).                                                       *)
(*                                                                         *)
(* Option<T> is a sequence of length <= 1: None is << >>, Some(x) is <<x>>.*)
(* A Property is a record [unparsed, id, val]: a typed variant carries its *)
(* value (1 component for a longhand, 2 for a Size2D, 4 for a Rect), the   *)
(* Unparsed variant carries its property id and its token list.            *)
(* Property ids are the macro's parameter names ($top, $block_start, ...), *)
(* the handler instance (MarginHandler, InsetHandler, ...) is `name`.      *)
(***************************************************************************)
EXTENDS Integers, Sequences, FiniteSets, TLC

\* ------------------------------------------------------------------ bounds
\* handle_property calls made on the handler for one declaration block
MaxSteps == 2

\* ------------------------------------------------------------ small inputs
\* LengthPercentageOrAuto values fed to the handler
Lengths == {1, 2}
\* raw token lists of Unparsed properties (var() references)
Tokens == {7}

None == << >>
Some(x) == <<x>>
IsSome(o) == o # << >>
Unwrap(o) == o[1]

PhysicalIds == {"top", "bottom", "left", "right"}
LogicalIds == {"block_start", "block_end", "inline_start", "inline_end"}
AxisShorthandIds == {"block_shorthand", "inline_shorthand"}
FamilyIds == PhysicalIds \cup LogicalIds \cup AxisShorthandIds \cup {"shorthand"}
\* a property id outside the handler's family
OtherId == "other"

Typed(id, val) == [unparsed |-> FALSE, id |-> id, val |-> val]
UnparsedProp(id, tokens) == [unparsed |-> TRUE, id |-> id, val |-> tokens]
IsTyped(p, id) == ~p.unparsed /\ p.id = id

\* UnparsedProperty::with_property_id: same tokens, another property id
with_property_id(p, id) == [p EXCEPT !.id = id]

\* ---------------------------------------------------- handler instantiation
HandlerNames == {"MarginHandler", "PaddingHandler", "ScrollMarginHandler",
                 "ScrollPaddingHandler", "InsetHandler"}

\* the $logical_shorthand literal of each side_handler! instantiation
LogicalShorthand(n) == n = "InsetHandler"

\* the optional $feature of each side_handler! instantiation
HandlerFeature(n) ==
  CASE n = "MarginHandler" -> Some("LogicalMargin")
    [] n = "PaddingHandler" -> Some("LogicalPadding")
    [] n = "InsetHandler" -> Some("LogicalInset")
    [] OTHER -> None

Features == {"LogicalMargin", "LogicalPadding", "LogicalInset", "CustomMediaQueries"}

\* Browsers values: a target matrix is represented by the features all of its
\* browsers support
LegacyBrowsers == {}
ModernBrowsers == Features
TargetValues == {None, Some(LegacyBrowsers), Some(ModernBrowsers)}

\* Feature::is_compatible
is_compatible(feature, browsers) == feature \in browsers

DeclarationContexts == {"None", "StyleRule", "Keyframes", "StyleAttribute"}

\* ------------------------------------------------- PropertyHandlerContext
\* PropertyHandlerContext::new
NewContext(targets) ==
  [targets |-> targets, is_important |-> FALSE, supports |-> << >>,
   ltr |-> << >>, rtl |-> << >>, context |-> "None"]

\* is_supported without the StyleAttribute override
IsSupportedByTargets(c, feature) ==
  IF IsSome(c.targets) THEN is_compatible(feature, Unwrap(c.targets))
  ELSE TRUE

\* PropertyHandlerContext::is_supported
is_supported(c, feature) ==
  IF c.context = "StyleAttribute" THEN TRUE
  ELSE IF IsSome(c.targets) THEN is_compatible(feature, Unwrap(c.targets))
  ELSE TRUE

\* add_logical_rule pushing to the LTR buffer only
AddLogicalRuleLtrOnly(c, l, r) == [c EXCEPT !.ltr = Append(@, l)]

\* PropertyHandlerContext::add_logical_rule
add_logical_rule(c, l, r) ==
  [c EXCEPT !.ltr = Append(@, l), !.rtl = Append(@, r)]

\* selector.append(Component::NonTSPseudoClass(PseudoClass::Dir(..))) on
\* every selector of the list
AppendDir(selectors, dir) ==
  [i \in 1..Len(selectors) |-> Append(selectors[i], dir)]

\* macro rule! of get_logical_rules
DirRule(style_rule, dir, decls) ==
  [type |-> "Style", selectors |-> AppendDir(style_rule.selectors, dir),
   vendor_prefix |-> "None",
   declarations |-> decls, important_declarations |-> << >>,
   rules |-> << >>, loc |-> style_rule.loc]

\* get_logical_rules with the :dir(rtl) rule pushed first
GetLogicalRulesRtlFirst(c, style_rule) ==
  (IF c.rtl # << >> THEN << DirRule(style_rule, ":dir(rtl)", c.rtl) >> ELSE << >>)
  \o (IF c.ltr # << >> THEN << DirRule(style_rule, ":dir(ltr)", c.ltr) >> ELSE << >>)

\* PropertyHandlerContext::get_logical_rules: the rules it returns
get_logical_rules(c, style_rule) ==
  (IF c.ltr # << >> THEN << DirRule(style_rule, ":dir(ltr)", c.ltr) >> ELSE << >>)
  \o (IF c.rtl # << >> THEN << DirRule(style_rule, ":dir(rtl)", c.rtl) >> ELSE << >>)

\* get_logical_rules taking the LTR buffer only
TakeLtrOnly(c) == [c EXCEPT !.ltr = << >>]

\* PropertyHandlerContext::get_logical_rules: the context it leaves
\* (std::mem::take of each non-empty buffer)
TakeLogical(c) == [c EXCEPT !.ltr = << >>, !.rtl = << >>]

\* the `else` branch of add_conditional_property: a new SupportsEntry
NewSupportsEntry(c, condition, property) ==
  [condition |-> condition,
   important_declarations |-> IF c.is_important THEN << property >> ELSE << >>,
   declarations |-> IF c.is_important THEN << >> ELSE << property >>]

\* the `if let Some(entry)` branch of add_conditional_property
PushToEntry(c, entry, property) ==
  IF c.is_important
  THEN [entry EXCEPT !.important_declarations = Append(@, property)]
  ELSE [entry EXCEPT !.declarations = Append(@, property)]

\* add_conditional_property pushing a new entry for every call
AddConditionalNewEntry(c, condition, property) ==
  IF c.context # "StyleRule" THEN c
  ELSE [c EXCEPT !.supports = Append(@, NewSupportsEntry(c, condition, property))]

\* add_conditional_property without the early return of line 106
AddConditionalInAnyContext(c, condition, property) ==
  IF \E i \in 1..Len(c.supports) : c.supports[i].condition = condition
  THEN LET i == CHOOSE i \in 1..Len(c.supports) :
                  /\ c.supports[i].condition = condition
                  /\ \A j \in 1..(i - 1) : c.supports[j].condition # condition
       IN [c EXCEPT !.supports[i] = PushToEntry(c, @, property)]
  ELSE [c EXCEPT !.supports = Append(@, NewSupportsEntry(c, condition, property))]

\* PropertyHandlerContext::add_conditional_property
add_conditional_property(c, condition, property) ==
  IF c.context # "StyleRule" THEN c
  ELSE IF \E i \in 1..Len(c.supports) : c.supports[i].condition = condition
  THEN LET i == CHOOSE i \in 1..Len(c.supports) :
                  /\ c.supports[i].condition = condition
                  /\ \A j \in 1..(i - 1) : c.supports[j].condition # condition
       IN [c EXCEPT !.supports[i] = PushToEntry(c, @, property)]
  ELSE [c EXCEPT !.supports = Append(@, NewSupportsEntry(c, condition, property))]

\* the `for (condition, fallback) in fallbacks` loop of add_unparsed_fallbacks:
\* each fallback becomes an Unparsed property with the id of `unparsed`
RECURSIVE AddFallbacks(_, _, _)
AddFallbacks(c, unparsed, fallbacks) ==
  IF fallbacks = << >> THEN c
  ELSE AddFallbacks(
         add_conditional_property(c, Head(fallbacks).condition,
           [Head(fallbacks).tag EXCEPT !.unparsed = TRUE, !.id = unparsed.id,
                                       !.val = Head(fallbacks).value]),
         unparsed, Tail(fallbacks))

\* PropertyHandlerContext::add_unparsed_fallbacks; `fallbacks` is what
\* unparsed.value.get_fallbacks(targets) returns
add_unparsed_fallbacks(c, unparsed, fallbacks) ==
  IF c.context # "StyleRule" /\ c.context # "StyleAttribute" THEN c
  ELSE IF IsSome(c.targets) THEN AddFallbacks(c, unparsed, fallbacks)
  ELSE c

\* the SupportsRule get_supports_rules builds for one entry
SupportsRule(style_rule, entry) ==
  [type |-> "Supports", condition |-> entry.condition,
   rules |-> << [type |-> "Style", selectors |-> style_rule.selectors,
                 vendor_prefix |-> "None",
                 declarations |-> entry.declarations,
                 important_declarations |-> entry.important_declarations,
                 rules |-> << >>, loc |-> style_rule.loc] >>,
   loc |-> style_rule.loc]

\* PropertyHandlerContext::get_supports_rules: the rules it returns
get_supports_rules(c, style_rule) ==
  [i \in 1..Len(c.supports) |-> SupportsRule(style_rule, c.supports[i])]

\* PropertyHandlerContext::get_supports_rules: the context it leaves
TakeSupports(c) == [c EXCEPT !.supports = << >>]

\* --------------------------------------------------------------- handler
Physical == "Physical"
Logical == "Logical"

\* PropertyCategory::default()
DefaultCategory == Physical

\* #[derive(Default)] of the handler struct
DefaultHandler ==
  [top |-> None, bottom |-> None, left |-> None, right |-> None,
   block_start |-> None, block_end |-> None,
   inline_start |-> None, inline_end |-> None,
   has_any |-> FALSE, category |-> DefaultCategory]

\* `let logical_supported = true $(&& context.is_supported(Feature::$feature))?`
LogicalSupported(n, c) ==
  IF IsSome(HandlerFeature(n)) THEN is_supported(c, Unwrap(HandlerFeature(n)))
  ELSE TRUE

\* `if let Some(val) = $slot { dest.push($id(val)) }` for a physical slot
PushPhysical(id, slot) ==
  IF IsSome(slot) THEN << Typed(id, <<Unwrap(slot)>>) >> ELSE << >>

\* `if let Some(val) = $slot { dest.push(val) }` for a logical slot
PushSlot(slot) == IF IsSome(slot) THEN << Unwrap(slot) >> ELSE << >>

\* PhysicalOutput with the components of the Rect in the order of the slots
PhysicalOutputSlotOrder(n, self, logical_supported) ==
  IF (~LogicalShorthand(n) \/ logical_supported)
     /\ IsSome(self.top) /\ IsSome(self.bottom)
     /\ IsSome(self.left) /\ IsSome(self.right)
  THEN << Typed("shorthand", << Unwrap(self.top), Unwrap(self.bottom),
                              Unwrap(self.left), Unwrap(self.right) >>) >>
  ELSE PushPhysical("top", self.top) \o PushPhysical("bottom", self.bottom)
       \o PushPhysical("left", self.left) \o PushPhysical("right", self.right)

\* PhysicalOutput without the $logical_shorthand gate
PhysicalOutputUngated(n, self, logical_supported) ==
  IF IsSome(self.top) /\ IsSome(self.bottom)
     /\ IsSome(self.left) /\ IsSome(self.right)
  THEN << Typed("shorthand", << Unwrap(self.top), Unwrap(self.right),
                              Unwrap(self.bottom), Unwrap(self.left) >>) >>
  ELSE PushPhysical("top", self.top) \o PushPhysical("bottom", self.bottom)
       \o PushPhysical("left", self.left) \o PushPhysical("right", self.right)

\* the physical output of flush
PhysicalOutput(n, self, logical_supported) ==
  IF (~LogicalShorthand(n) \/ logical_supported)
     /\ IsSome(self.top) /\ IsSome(self.bottom)
     /\ IsSome(self.left) /\ IsSome(self.right)
  THEN << Typed("shorthand", << Unwrap(self.top), Unwrap(self.right),
                              Unwrap(self.bottom), Unwrap(self.left) >>) >>
  ELSE PushPhysical("top", self.top) \o PushPhysical("bottom", self.bottom)
       \o PushPhysical("left", self.left) \o PushPhysical("right", self.right)

\* macro logical_side!
logical_side(start, end, shorthand_prop, start_prop, end_prop) ==
  IF IsSome(start) /\ IsSome(end)
     /\ IsTyped(Unwrap(start), start_prop) /\ IsTyped(Unwrap(end), end_prop)
  THEN << Typed(shorthand_prop, << Unwrap(start).val[1], Unwrap(end).val[1] >>) >>
  ELSE PushSlot(start) \o PushSlot(end)

\* prop! with the Unparsed arm pushing the property under the id it has
PropKeepsId(val, logical, physical) ==
  IF IsSome(val) /\ IsTyped(Unwrap(val), logical)
  THEN << Typed(physical, Unwrap(val).val) >>
  ELSE IF IsSome(val) /\ Unwrap(val).unparsed
  THEN << Unwrap(val) >>
  ELSE << >>

\* macro prop!
prop(val, logical, physical) ==
  IF IsSome(val) /\ IsTyped(Unwrap(val), logical)
  THEN << Typed(physical, Unwrap(val).val) >>
  ELSE IF IsSome(val) /\ Unwrap(val).unparsed
  THEN << with_property_id(Unwrap(val), physical) >>
  ELSE << >>

\* logical_prop! without the Unparsed arm
LogicalPropTypedOnly(c, val, logical, ltr, rtl) ==
  IF IsSome(val) /\ IsTyped(Unwrap(val), logical)
  THEN add_logical_rule(c, Typed(ltr, Unwrap(val).val), Typed(rtl, Unwrap(val).val))
  ELSE c

\* logical_prop! with the two arguments of add_logical_rule exchanged
LogicalPropSwapped(c, val, logical, ltr, rtl) ==
  IF IsSome(val) /\ IsTyped(Unwrap(val), logical)
  THEN add_logical_rule(c, Typed(rtl, Unwrap(val).val), Typed(ltr, Unwrap(val).val))
  ELSE IF IsSome(val) /\ Unwrap(val).unparsed
  THEN add_logical_rule(c, with_property_id(Unwrap(val), rtl),
                           with_property_id(Unwrap(val), ltr))
  ELSE c

\* macro logical_prop!
logical_prop(c, val, logical, ltr, rtl) ==
  IF IsSome(val) /\ IsTyped(Unwrap(val), logical)
  THEN add_logical_rule(c, Typed(ltr, Unwrap(val).val), Typed(rtl, Unwrap(val).val))
  ELSE IF IsSome(val) /\ Unwrap(val).unparsed
  THEN add_logical_rule(c, with_property_id(Unwrap(val), ltr),
                           with_property_id(Unwrap(val), rtl))
  ELSE c

\* the `matches!(..., (Some($inline_start(start)), Some($inline_end(end))) if start == end)`
InlineEqual(inline_start, inline_end) ==
  /\ IsSome(inline_start) /\ IsSome(inline_end)
  /\ IsTyped(Unwrap(inline_start), "inline_start")
  /\ IsTyped(Unwrap(inline_end), "inline_end")
  /\ Unwrap(inline_start).val = Unwrap(inline_end).val

\* the block-axis output of flush
BlockOutput(self, logical_supported) ==
  IF logical_supported
  THEN logical_side(self.block_start, self.block_end,
                    "block_shorthand", "block_start", "block_end")
  ELSE prop(self.block_start, "block_start", "top")
       \o prop(self.block_end, "block_end", "bottom")

\* InlineOutput with equal inline values lowered to the left property alone
InlineOutputLeftOnly(self, logical_supported) ==
  IF logical_supported
  THEN logical_side(self.inline_start, self.inline_end,
                    "inline_shorthand", "inline_start", "inline_end")
  ELSE IF InlineEqual(self.inline_start, self.inline_end)
  THEN prop(self.inline_start, "inline_start", "left")
  ELSE << >>

\* the inline-axis output of flush that goes to dest
InlineOutput(self, logical_supported) ==
  IF logical_supported
  THEN logical_side(self.inline_start, self.inline_end,
                    "inline_shorthand", "inline_start", "inline_end")
  ELSE IF IsSome(self.inline_start) \/ IsSome(self.inline_end)
  THEN IF InlineEqual(self.inline_start, self.inline_end)
       THEN prop(self.inline_start, "inline_start", "left")
            \o prop(self.inline_end, "inline_end", "right")
       ELSE << >>
  ELSE << >>

\* the inline-axis output of flush that goes to the context
InlineContext(self, c, logical_supported) ==
  IF ~logical_supported
     /\ (IsSome(self.inline_start) \/ IsSome(self.inline_end))
     /\ ~InlineEqual(self.inline_start, self.inline_end)
  THEN logical_prop(
         logical_prop(c, self.inline_start, "inline_start", "left", "right"),
         self.inline_end, "inline_end", "right", "left")
  ELSE c

\* the slots after the std::mem::take calls of flush
TakeAll(self) ==
  [self EXCEPT !.has_any = FALSE,
               !.top = None, !.bottom = None, !.left = None, !.right = None,
               !.block_start = None, !.block_end = None,
               !.inline_start = None, !.inline_end = None]

\* A machine state st = [self, dest, ctx, flushes]: the handler, the
\* destination list, the context, and the record of the flushes that ran
\* (what each found pending and what it pushed).
FlushRecord(n, st) ==
  LET sup == LogicalSupported(n, st.ctx)
      out == PhysicalOutput(n, st.self, sup) \o BlockOutput(st.self, sup)
             \o InlineOutput(st.self, sup)
      c2 == InlineContext(st.self, st.ctx, sup)
  IN [pre |-> st.self, supported |-> sup, out |-> out,
      physical |-> PhysicalOutput(n, st.self, sup),
      block |-> BlockOutput(st.self, sup),
      inline |-> InlineOutput(st.self, sup),
      ltr |-> SubSeq(c2.ltr, Len(st.ctx.ltr) + 1, Len(c2.ltr)),
      rtl |-> SubSeq(c2.rtl, Len(st.ctx.rtl) + 1, Len(c2.rtl))]

\* flush pushing the inline-axis output before the physical and block outputs
FlushInlineFirst(n, st) ==
  IF ~st.self.has_any THEN st
  ELSE LET sup == LogicalSupported(n, st.ctx)
       IN [self |-> TakeAll(st.self),
           dest |-> st.dest \o InlineOutput(st.self, sup)
                    \o PhysicalOutput(n, st.self, sup) \o BlockOutput(st.self, sup),
           ctx |-> InlineContext(st.self, st.ctx, sup),
           flushes |-> Append(st.flushes, FlushRecord(n, st))]

\* side_handler!::flush
flush(n, st) ==
  IF ~st.self.has_any THEN st
  ELSE LET sup == LogicalSupported(n, st.ctx)
       IN [self |-> TakeAll(st.self),
           dest |-> st.dest \o PhysicalOutput(n, st.self, sup)
                    \o BlockOutput(st.self, sup) \o InlineOutput(st.self, sup),
           ctx |-> InlineContext(st.self, st.ctx, sup),
           flushes |-> Append(st.flushes, FlushRecord(n, st))]

\* property! without the flush on a category change
PropertyWithoutFlush(n, st, key, val, category) ==
  [st EXCEPT !.self = [@ EXCEPT ![key] = Some(val),
                                !.category = category,
                                !.has_any = TRUE]]

\* macro property!
property(n, st, key, val, category) ==
  LET s1 == IF category # st.self.category THEN flush(n, st) ELSE st
  IN [s1 EXCEPT !.self = [@ EXCEPT ![key] = Some(val),
                                   !.category = category,
                                   !.has_any = TRUE]]

\* macro logical_property!
logical_property(n, st, key, val) ==
  LET s1 == IF st.self.category # Logical THEN flush(n, st) ELSE st
  IN [s1 EXCEPT !.self = [@ EXCEPT ![key] = Some(val),
                                   !.category = Logical,
                                   !.has_any = TRUE]]

\* the $shorthand arm leaving the logical slots as they are
ShorthandArmKeepsLogical(st, val) ==
  [st EXCEPT !.self = [@ EXCEPT !.top = Some(val[1]), !.right = Some(val[2]),
                                !.bottom = Some(val[3]), !.left = Some(val[4]),
                                !.has_any = TRUE]]

\* the $shorthand arm of handle_property
ShorthandArm(st, val) ==
  [st EXCEPT !.self = [@ EXCEPT !.top = Some(val[1]), !.right = Some(val[2]),
                                !.bottom = Some(val[3]), !.left = Some(val[4]),
                                !.block_start = None, !.block_end = None,
                                !.inline_start = None, !.inline_end = None,
                                !.has_any = TRUE]]

\* the Unparsed arm pushing the property without the flush before it
UnparsedArmWithoutFlush(n, st, p) ==
  IF p.id \in LogicalIds
  THEN logical_property(n, st, p.id, p)
  ELSE [st EXCEPT !.dest = Append(@, p)]

\* the Unparsed arm of handle_property
UnparsedArm(n, st, p) ==
  IF p.id \in LogicalIds
  THEN logical_property(n, st, p.id, p)
  ELSE LET s1 == flush(n, st)
       IN [s1 EXCEPT !.dest = Append(@, p)]

\* side_handler!::handle_property: TRUE iff the property is accepted
Accepts(p) == p.id \in FamilyIds

\* handle_property flushing before it rejects a property
HandlePropertyFlushingRejected(n, st, p) ==
  IF ~Accepts(p) THEN flush(n, st)
  ELSE IF p.unparsed THEN UnparsedArm(n, st, p)
  ELSE IF p.id \in PhysicalIds THEN property(n, st, p.id, p.val[1], Physical)
  ELSE IF p.id \in LogicalIds THEN logical_property(n, st, p.id, p)
  ELSE IF p.id = "block_shorthand"
  THEN logical_property(n,
         logical_property(n, st, "block_start", Typed("block_start", <<p.val[1]>>)),
         "block_end", Typed("block_end", <<p.val[2]>>))
  ELSE IF p.id = "inline_shorthand"
  THEN logical_property(n,
         logical_property(n, st, "inline_start", Typed("inline_start", <<p.val[1]>>)),
         "inline_end", Typed("inline_end", <<p.val[2]>>))
  ELSE ShorthandArm(st, p.val)

\* side_handler!::handle_property: the state it leaves
handle_property(n, st, p) ==
  IF ~Accepts(p) THEN st
  ELSE IF p.unparsed THEN UnparsedArm(n, st, p)
  ELSE IF p.id \in PhysicalIds THEN property(n, st, p.id, p.val[1], Physical)
  ELSE IF p.id \in LogicalIds THEN logical_property(n, st, p.id, p)
  ELSE IF p.id = "block_shorthand"
  THEN logical_property(n,
         logical_property(n, st, "block_start", Typed("block_start", <<p.val[1]>>)),
         "block_end", Typed("block_end", <<p.val[2]>>))
  ELSE IF p.id = "inline_shorthand"
  THEN logical_property(n,
         logical_property(n, st, "inline_start", Typed("inline_start", <<p.val[1]>>)),
         "inline_end", Typed("inline_end", <<p.val[2]>>))
  ELSE ShorthandArm(st, p.val)

\* side_handler!::finalize
finalize(n, st) == flush(n, st)


\* ------------------------------------------------------ the state machine
VARIABLES
  name,     \* which side_handler! instantiation the handler is
  handler,  \* the handler struct (slots, has_any, category)
  dest,     \* the DeclarationList of the block being minified
  ctx,      \* the PropertyHandlerContext
  rules,    \* the Vec<CssRule> the last operation returned, if it was a harvest
  pc,       \* "idle" between blocks, "block" while a block is fed
  steps,    \* handle_property calls made for the current block
  input,    \* history: the declarations of the current block the handler accepted
  start,    \* history: the handler and the context when the current block began
  last,     \* history: the last operation, what it was given and which flushes it ran
  sheet,    \* the StyleSheet: its parser options and its top-level rules
  custom_media  \* the @custom-media lookup table StyleSheet::minify built

vars == << name, handler, dest, ctx, rules, pc, steps, input, start, last,
           sheet, custom_media >>

\* a style sheet without rules, parsed without the custom_media option
NoSheet == [options |-> [custom_media |-> FALSE], rules |-> << >>]

\* The declarations fed to the handler: every physical and logical longhand,
\* with two values where the handler compares or replaces values, the three
\* shorthands, Unparsed properties of each kind of id, and properties outside
\* the family.
Inputs ==
  { Typed(id, <<v>>) : id \in {"top", "left", "inline_start"}, v \in Lengths }
  \cup { Typed(id, <<1>>) : id \in {"bottom", "right", "block_start", "inline_end"} }
  \cup { Typed("block_end", <<2>>) }
  \cup { Typed("shorthand", <<1, 2, 2, 1>>) }
  \cup { Typed("block_shorthand", <<1, 2>>) }
  \cup { Typed("inline_shorthand", <<1, 1>>), Typed("inline_shorthand", <<1, 2>>) }
  \cup { UnparsedProp(id, <<t>>) :
           id \in {"block_start", "inline_start", "inline_end", "top",
                   "shorthand", "inline_shorthand", OtherId},
           t \in Tokens }
  \cup { Typed(OtherId, <<1>>) }

\* the style rule the side-outputs are harvested for
TheStyleRule ==
  [selectors |-> << <<"a">>, <<"b">> >>, loc |-> "loc0"]

NoOp == [op |-> "init", property |-> None, ret |-> FALSE,
         pre |-> DefaultHandler, predest |-> << >>, prectx |-> NewContext(None),
         flushes |-> << >>]

\* StyleSheet::minify / StyleAttribute::minify: the context and the handlers
\* are constructed once
Init ==
  /\ name \in HandlerNames
  /\ handler = DefaultHandler
  /\ dest = << >>
  /\ \E t \in TargetValues : ctx = NewContext(t)
  /\ rules = << >>
  /\ pc = "idle"
  /\ steps = 0
  /\ input = << >>
  /\ start = [self |-> DefaultHandler, ctx |-> ctx]
  /\ last = NoOp
  /\ sheet = NoSheet
  /\ custom_media = None

\* the declaration contexts the callers minify a block in: the rule walk for
\* a style rule and for a keyframe, StyleAttribute::minify for a style attribute
BlockContexts == {"StyleRule", "Keyframes", "StyleAttribute"}

\* A declaration block starts: the caller sets the declaration context and
\* hands the handlers an empty destination list; the handler object is the
\* one that served the blocks before. Blocks are started while the
\* side-output buffers are empty (nothing was added, or it was harvested).
MinifyBlock(c) ==
  /\ pc = "idle"
  /\ ctx.ltr = << >> /\ ctx.rtl = << >> /\ ctx.supports = << >>
  /\ pc' = "block"
  /\ steps' = 0
  /\ ctx' = [ctx EXCEPT !.context = c]
  /\ dest' = << >>
  /\ input' = << >>
  /\ start' = [self |-> handler, ctx |-> ctx']
  /\ last' = [NoOp EXCEPT !.op = "minify_block", !.pre = handler, !.prectx = ctx']
  /\ rules' = << >>
  /\ UNCHANGED << name, handler, sheet, custom_media >>

\* handler.handle_property(property, dest, context)
HandleProperty(p) ==
  /\ pc = "block"
  /\ steps < MaxSteps
  /\ LET st == handle_property(name,
                 [self |-> handler, dest |-> dest, ctx |-> ctx, flushes |-> << >>], p)
     IN /\ handler' = st.self
        /\ dest' = st.dest
        /\ ctx' = st.ctx
        /\ last' = [op |-> "handle_property", property |-> Some(p), ret |-> Accepts(p),
                    pre |-> handler, predest |-> dest, prectx |-> ctx,
                    flushes |-> st.flushes]
  /\ input' = IF Accepts(p) THEN Append(input, p) ELSE input
  /\ steps' = steps + 1
  /\ rules' = << >>
  /\ UNCHANGED << name, pc, start, sheet, custom_media >>

\* handler.finalize(dest, context) at the end of the block
Finalize ==
  /\ pc = "block"
  /\ LET st == finalize(name,
                 [self |-> handler, dest |-> dest, ctx |-> ctx, flushes |-> << >>])
     IN /\ handler' = st.self
        /\ dest' = st.dest
        /\ ctx' = st.ctx
        /\ last' = [op |-> "finalize", property |-> None, ret |-> FALSE,
                    pre |-> handler, predest |-> dest, prectx |-> ctx,
                    flushes |-> st.flushes]
  /\ pc' = "idle"
  /\ rules' = << >>
  /\ UNCHANGED << name, steps, input, start, sheet, custom_media >>

\* After a style rule's block the caller harvests the side-outputs:
\* get_supports_rules, then get_logical_rules
HarvestRules ==
  /\ pc = "idle"
  /\ last.op = "finalize"
  /\ ctx.context = "StyleRule"
  /\ rules' = get_supports_rules(ctx, TheStyleRule) \o get_logical_rules(ctx, TheStyleRule)
  /\ ctx' = TakeLogical(TakeSupports(ctx))
  /\ last' = [NoOp EXCEPT !.op = "harvest", !.pre = handler, !.prectx = ctx]
  /\ UNCHANGED << name, handler, dest, pc, steps, input, start, sheet, custom_media >>

Next ==
  \/ \E c \in BlockContexts : MinifyBlock(c)
  \/ \E p \in Inputs : HandleProperty(p)
  \/ Finalize
  \/ HarvestRules

Spec == Init /\ [][Next]_vars

\* ------------------------------------- the context driven through its API
\* The handlers of the other property families call the context's methods
\* too; SpecCtx drives the context with every sequence of such calls. A
\* property passed to the context carries, besides its value, the history
\* field `important`: whether it stems from an !important declaration, which
\* is what the caller sets context.is_important to while it processes one.
\* Its value is its position among the declarations added since the harvest.

\* declarations a buffer of the context holds at most
MaxDecls == 3

\* SupportsCondition values
Conditions == {"c1", "c2"}

Tagged(id, k, important) ==
  [unparsed |-> FALSE, id |-> id, val |-> <<k>>, important |-> important]

\* A property passed to add_conditional_property carries a second history
\* field, the condition it was added under.
Conditional(k, important, condition) ==
  [unparsed |-> FALSE, id |-> "top", val |-> <<k>>, important |-> important,
   condition |-> condition]

\* the declarations held by the supports buffer
RECURSIVE SupportsSize(_)
SupportsSize(supports) ==
  IF supports = << >> THEN 0
  ELSE Len(Head(supports).declarations) + Len(Head(supports).important_declarations)
       + SupportsSize(Tail(supports))

CtxOp(op) == [NoOp EXCEPT !.op = op]

CtxFrame == << name, handler, dest, pc, steps, input, start, sheet, custom_media >>

InitCtx ==
  /\ name = "MarginHandler"
  /\ handler = DefaultHandler
  /\ dest = << >>
  /\ \E t \in TargetValues : ctx = NewContext(t)
  /\ rules = << >>
  /\ pc = "idle"
  /\ steps = 0
  /\ input = << >>
  /\ start = [self |-> DefaultHandler, ctx |-> NewContext(None)]
  /\ last = NoOp
  /\ sheet = NoSheet
  /\ custom_media = None

\* the caller assigns context.context
SetContext(c) ==
  /\ ctx.context # c
  /\ ctx' = [ctx EXCEPT !.context = c]
  /\ last' = CtxOp("set_context")
  /\ rules' = << >>
  /\ UNCHANGED CtxFrame

\* the caller assigns context.is_important
SetImportant(b) ==
  /\ ctx.is_important # b
  /\ ctx' = [ctx EXCEPT !.is_important = b]
  /\ last' = CtxOp("set_important")
  /\ rules' = << >>
  /\ UNCHANGED CtxFrame

\* context.add_logical_rule(ltr, rtl), as logical_prop! calls it
AddLogicalRule ==
  /\ Len(ctx.ltr) < MaxDecls
  /\ LET k == Len(ctx.ltr) + 1
     IN ctx' = add_logical_rule(ctx, Tagged("left", k, ctx.is_important),
                                     Tagged("right", k, ctx.is_important))
  /\ last' = CtxOp("add_logical_rule")
  /\ rules' = << >>
  /\ UNCHANGED CtxFrame

\* context.add_conditional_property(condition, property)
AddConditionalProperty(condition) ==
  /\ SupportsSize(ctx.supports) < MaxDecls
  /\ LET k == SupportsSize(ctx.supports) + 1
     IN ctx' = add_conditional_property(ctx, condition,
                                        Conditional(k, ctx.is_important, condition))
  /\ last' = CtxOp("add_conditional_property")
  /\ rules' = << >>
  /\ UNCHANGED CtxFrame

\* context.get_logical_rules(style_rule)
GetLogicalRules ==
  /\ rules' = get_logical_rules(ctx, TheStyleRule)
  /\ ctx' = TakeLogical(ctx)
  /\ last' = CtxOp("get_logical_rules")
  /\ UNCHANGED CtxFrame

\* context.get_supports_rules(style_rule)
GetSupportsRules ==
  /\ rules' = get_supports_rules(ctx, TheStyleRule)
  /\ ctx' = TakeSupports(ctx)
  /\ last' = CtxOp("get_supports_rules")
  /\ UNCHANGED CtxFrame

NextCtx ==
  \/ \E c \in DeclarationContexts : SetContext(c)
  \/ \E b \in BOOLEAN : SetImportant(b)
  \/ AddLogicalRule
  \/ \E condition \in Conditions : AddConditionalProperty(condition)
  \/ GetLogicalRules
  \/ GetSupportsRules

SpecCtx == InitCtx /\ [][NextCtx]_vars

\* ------------------------ the supports side of the context, with fallbacks
\* SpecSupports drives the methods of the context that serve the conditional
\* fallbacks: is_supported, add_conditional_property, add_unparsed_fallbacks
\* and get_supports_rules, in every declaration context.

\* the conditions of the fallbacks get_fallbacks returns for one property
FallbackLists == { << >>, << "c1" >>, << "c2", "c1" >>, << "c1", "c1" >> }

\* the Unparsed property add_unparsed_fallbacks is called with
TheUnparsed == UnparsedProp("bottom", << 7 >>)

\* context.is_supported(feature)
IsSupported(feature) ==
  /\ last' = [op |-> "is_supported", feature |-> feature,
              ret |-> is_supported(ctx, feature), prectx |-> ctx]
  /\ rules' = << >>
  /\ UNCHANGED << ctx, name, handler, dest, pc, steps, input, start, sheet, custom_media >>

\* context.add_unparsed_fallbacks(unparsed)
AddUnparsedFallbacks(conds) ==
  /\ SupportsSize(ctx.supports) + Len(conds) <= MaxDecls
  /\ LET k == SupportsSize(ctx.supports)
         fallbacks == [i \in 1..Len(conds) |->
                        [condition |-> conds[i], value |-> << k + i >>,
                         tag |-> Conditional(k + i, ctx.is_important, conds[i])]]
     IN ctx' = add_unparsed_fallbacks(ctx, TheUnparsed, fallbacks)
  /\ last' = [op |-> "add_unparsed_fallbacks", fallbacks |-> Len(conds)]
  /\ rules' = << >>
  /\ UNCHANGED CtxFrame

NextSupports ==
  \/ \E c \in DeclarationContexts : SetContext(c)
  \/ \E b \in BOOLEAN : SetImportant(b)
  \/ \E feature \in Features : IsSupported(feature)
  \/ \E condition \in Conditions : AddConditionalProperty(condition)
  \/ \E conds \in FallbackLists : AddUnparsedFallbacks(conds)
  \/ GetSupportsRules

SpecSupports == InitCtx /\ [][NextSupports]_vars

\* --------------------------------- StyleSheet::minify: @custom-media scan
\* top-level rules of a style sheet
MaxRules == 2

\* CssRule values: a rule is [type, name, query, rules]; name and query are
\* those of a CustomMedia rule, rules the nested rules of a Media rule
CustomMedia(n, q) == [type |-> "CustomMedia", name |-> n, query |-> q, rules |-> << >>]

RuleValues ==
  { CustomMedia("n1", "q1"), CustomMedia("n1", "q2"), CustomMedia("n2", "q1"),
    [type |-> "Style", name |-> "", query |-> "", rules |-> << >>],
    [type |-> "Media", name |-> "", query |-> "",
     rules |-> << CustomMedia("n1", "q3") >>] }

RuleLists == UNION { [1..n -> RuleValues] : n \in 0..MaxRules }

\* HashMap::insert: the entry for key is replaced
Insert(table, key, value) ==
  [k \in (DOMAIN table) \cup {key} |-> IF k = key THEN value ELSE table[k]]

\* HashMap::insert keeping the entry a key already has
InsertIfAbsent(table, key, value) ==
  [k \in (DOMAIN table) \cup {key} |-> IF k \in DOMAIN table THEN table[k] ELSE value]

\* the loop `for rule in &self.rules.0` of the pre-scan, keeping the first
\* definition of a name
RECURSIVE ScanRulesFirstWins(_, _)
ScanRulesFirstWins(table, rs) ==
  IF rs = << >> THEN table
  ELSE ScanRulesFirstWins(
         IF Head(rs).type = "CustomMedia"
         THEN InsertIfAbsent(table, Head(rs).name, Head(rs)) ELSE table,
         Tail(rs))

\* the loop `for rule in &self.rules.0` of the pre-scan
RECURSIVE ScanRules(_, _)
ScanRules(table, rs) ==
  IF rs = << >> THEN table
  ELSE ScanRules(
         IF Head(rs).type = "CustomMedia"
         THEN Insert(table, Head(rs).name, Head(rs)) ELSE table,
         Tail(rs))

\* `let custom_media = if .. { .. Some(custom_media) } else { None }`
PreScan(s, targets) ==
  IF /\ s.options.custom_media
     /\ IsSome(targets)
     /\ ~is_compatible("CustomMediaQueries", Unwrap(targets))
  THEN Some(ScanRules(<< >>, s.rules))
  ELSE None

InitSheet ==
  /\ name = "MarginHandler"
  /\ handler = DefaultHandler
  /\ dest = << >>
  /\ \E t \in TargetValues : ctx = NewContext(t)
  /\ rules = << >>
  /\ pc = "idle"
  /\ steps = 0
  /\ input = << >>
  /\ start = [self |-> DefaultHandler, ctx |-> NewContext(None)]
  /\ last = NoOp
  /\ \E b \in BOOLEAN, rs \in RuleLists :
       sheet = [options |-> [custom_media |-> b], rules |-> rs]
  /\ custom_media = None

\* StyleSheet::minify up to the construction of the MinifyContext
MinifySheet ==
  /\ last.op = "init"
  /\ custom_media' = PreScan(sheet, ctx.targets)
  /\ last' = CtxOp("minify")
  /\ UNCHANGED << name, handler, dest, ctx, rules, pc, steps, input, start, sheet >>

NextSheet == MinifySheet

SpecSheet == InitSheet /\ [][NextSheet]_vars

\* ------------------------------------------------ the cascade (yardstick)
\* What a declaration list means to an engine that implements the logical
\* properties, in a horizontal writing mode: which value each physical side
\* ends up with under a direction. A side's value is written [unparsed, of,
\* pos, val]: for a typed value `val` is the length; for an Unparsed
\* declaration it is the token list, `of` the shorthand grammar the tokens are
\* read with ("long" for a longhand) and `pos` the component the side takes.
Sides == {"top", "right", "bottom", "left"}
Directions == {"ltr", "rtl"}

SideOf(id, dir) ==
  CASE id = "block_start" -> "top"
    [] id = "block_end" -> "bottom"
    [] id = "inline_start" -> IF dir = "ltr" THEN "left" ELSE "right"
    [] id = "inline_end" -> IF dir = "ltr" THEN "right" ELSE "left"
    [] OTHER -> id

\* the sides a shorthand sets, in the order of its components
ShorthandSides(id, dir) ==
  CASE id = "shorthand" -> << "top", "right", "bottom", "left" >>
    [] id = "block_shorthand" -> << "top", "bottom" >>
    [] id = "inline_shorthand" ->
         IF dir = "ltr" THEN << "left", "right" >> ELSE << "right", "left" >>
    [] OTHER -> << >>

NoStyle == [s \in Sides |-> None]

\* the style after one more declaration
Declare(style, p, dir) ==
  IF p.id \in PhysicalIds \cup LogicalIds
  THEN [style EXCEPT ![SideOf(p.id, dir)] =
          Some([unparsed |-> p.unparsed, of |-> "long", pos |-> 1, val |-> p.val])]
  ELSE LET ss == ShorthandSides(p.id, dir)
       IN [s \in Sides |->
             IF \E k \in 1..Len(ss) : ss[k] = s
             THEN LET k == CHOOSE k \in 1..Len(ss) : ss[k] = s
                  IN IF p.unparsed
                     THEN Some([unparsed |-> TRUE, of |-> p.id, pos |-> k, val |-> p.val])
                     ELSE Some([unparsed |-> FALSE, of |-> "long", pos |-> 1,
                                val |-> <<p.val[k]>>])
             ELSE style[s]]

RECURSIVE CascadeFrom(_, _, _)
CascadeFrom(style, decls, dir) ==
  IF decls = << >> THEN style
  ELSE CascadeFrom(Declare(style, Head(decls), dir), Tail(decls), dir)

\* the value that wins the cascade for each side
Cascade(decls, dir) == CascadeFrom(NoStyle, decls, dir)

\* what the current block added to the LTR / RTL buffer
AddedLtr == SubSeq(ctx.ltr, Len(start.ctx.ltr) + 1, Len(ctx.ltr))
AddedRtl == SubSeq(ctx.rtl, Len(start.ctx.rtl) + 1, Len(ctx.rtl))

\* the declarations that apply under a direction: the block's dest, then the
\* :dir() rule of that direction
Output(dir) == dest \o (IF dir = "ltr" THEN AddedLtr ELSE AddedRtl)

BlockDone == last.op = "finalize"

\* C1 (as claimed): after finalize, the value that wins the cascade for each
\* physical side, under LTR and under RTL, is the same in the output (dest
\* followed by the :dir() rule) as in the accepted input sequence.
CascadePreserved ==
  BlockDone => \A dir \in Directions : Cascade(Output(dir), dir) = Cascade(input, dir)

StyleOf(r) == IF r.type = "Style" THEN r ELSE r.rules[1]

\* the flags of a harvested rule's declarations agree with the lists they are in
FlagsKept(r) ==
  /\ \A j \in 1..Len(StyleOf(r).declarations) :
       ~StyleOf(r).declarations[j].important
  /\ \A j \in 1..Len(StyleOf(r).important_declarations) :
       StyleOf(r).important_declarations[j].important

\* C3 (as claimed): a declaration added while context.is_important is true is
\* an important declaration of the rule it is harvested into, and one added
\* while it is false a normal declaration, in the rules of get_supports_rules
\* and in the rules of get_logical_rules.
ImportantFlagSurvives ==
  \A i \in 1..Len(rules) : FlagsKept(rules[i])

\* ------------------------------------------------- a block minified again
\* a newly created handler with an empty destination list
Fresh(c) == [self |-> DefaultHandler, dest |-> << >>, ctx |-> c, flushes |-> << >>]

RECURSIVE Feed(_, _, _)
Feed(n, st, decls) ==
  IF decls = << >> THEN st
  ELSE Feed(n, handle_property(n, st, Head(decls)), Tail(decls))

\* the declarations fed in order through a newly created handler, then finalize
Minify(n, c, decls) == finalize(n, Feed(n, Fresh(c), decls))

\* the context of the current block with its buffers empty
BlockContext == TakeLogical(TakeSupports(start.ctx))

\* C4 (as claimed): the dest a newly created handler emitted for a block, fed
\* through a newly created handler with the same targets and context, comes
\* out as exactly the same dest, with nothing added to the LTR/RTL buffers.
Idempotent ==
  (BlockDone /\ start.self = DefaultHandler) =>
    LET again == Minify(name, BlockContext, dest)
    IN /\ again.dest = dest
       /\ again.ctx.ltr = << >>
       /\ again.ctx.rtl = << >>

\* ------------------------------------------------------- claims on flush
IsPrefix(a, b) == Len(a) <= Len(b) /\ SubSeq(b, 1, Len(a)) = a

\* what the last operation appended to dest
Appended == SubSeq(dest, Len(last.predest) + 1, Len(dest))

\* the handler that holds a newly stored declaration and nothing else
Stored(p) ==
  IF p.id \in PhysicalIds
  THEN [DefaultHandler EXCEPT ![p.id] = Some(p.val[1]),
                              !.has_any = TRUE, !.category = Physical]
  ELSE IF p.id \in LogicalIds
  THEN [DefaultHandler EXCEPT ![p.id] = Some(p),
                              !.has_any = TRUE, !.category = Logical]
  ELSE IF p.id = "block_shorthand"
  THEN [DefaultHandler EXCEPT !.block_start = Some(Typed("block_start", <<p.val[1]>>)),
                              !.block_end = Some(Typed("block_end", <<p.val[2]>>)),
                              !.has_any = TRUE, !.category = Logical]
  ELSE [DefaultHandler EXCEPT !.inline_start = Some(Typed("inline_start", <<p.val[1]>>)),
                              !.inline_end = Some(Typed("inline_end", <<p.val[2]>>)),
                              !.has_any = TRUE, !.category = Logical]

\* the last operation accepted a declaration of the other category
CategoryTransition ==
  /\ last.op = "handle_property"
  /\ last.ret
  /\ LET p == Unwrap(last.property)
     IN \/ ~p.unparsed /\ p.id \in PhysicalIds /\ last.pre.category = Logical
        \/ p.id \in LogicalIds /\ last.pre.category = Physical
        \/ ~p.unparsed /\ p.id \in AxisShorthandIds /\ last.pre.category = Physical

AllFour(h) == IsSome(h.top) /\ IsSome(h.right) /\ IsSome(h.bottom) /\ IsSome(h.left)

\* the Rect built from the four physical slots
RectOf(h) ==
  Typed("shorthand", << Unwrap(h.top), Unwrap(h.right), Unwrap(h.bottom), Unwrap(h.left) >>)

HasId(out, ids) == \E i \in 1..Len(out) : out[i].id \in ids

\* out holds the present slots among ids, each once as the longhand mk(id),
\* and nothing else
ExactlyPresent(out, h, ids, mk(_)) ==
  /\ Len(out) = Cardinality({id \in ids : IsSome(h[id])})
  /\ \A id \in ids : IsSome(h[id]) => \E i \in 1..Len(out) : out[i] = mk(id)

\* the two logical slots of an axis hold typed longhands
BothTyped(h, startId, endId) ==
  /\ IsSome(h[startId]) /\ IsSome(h[endId])
  /\ IsTyped(Unwrap(h[startId]), startId) /\ IsTyped(Unwrap(h[endId]), endId)

\* the output of a supported logical axis
AxisFolded(out, h, startId, endId, shorthand) ==
  IF BothTyped(h, startId, endId)
  THEN out = << Typed(shorthand, << Unwrap(h[startId]).val[1], Unwrap(h[endId]).val[1] >>) >>
  ELSE LET mk(id) == Unwrap(h[id]) IN ExactlyPresent(out, h, {startId, endId}, mk)

\* the last operation ran a flush that found something pending
Flushed == last.flushes # << >>

\* the inset gate as the claim states it: for inset, logical supported
Gate(f) == (name = "InsetHandler") => f.supported

\* C6 (as claimed): whenever a flush emits a shorthand, no longhand covered by
\* that shorthand is emitted in the same flush: with the four-sided shorthand
\* no physical longhand, with an axis shorthand neither longhand of the axis.
ShorthandWithoutLonghands ==
  \A i \in 1..Len(last.flushes) :
    LET f == last.flushes[i]
    IN /\ HasId(f.out, {"shorthand"}) => ~HasId(f.out, PhysicalIds)
       /\ HasId(f.out, {"block_shorthand"}) => ~HasId(f.out, {"block_start", "block_end"})
       /\ HasId(f.out, {"inline_shorthand"}) => ~HasId(f.out, {"inline_start", "inline_end"})

\* C6 (amended): what a flush pushes to dest is its physical output, then its
\* block output, then its inline output. With all four physical slots present
\* (and, for inset, logical supported) the physical output is exactly the
\* four-sided shorthand Rect(top, right, bottom, left); otherwise it is exactly
\* the present physical longhands. With logical supported the output of an
\* axis is exactly the axis shorthand (start, end) when both typed longhands
\* are present, and exactly the present longhands otherwise. With logical not
\* supported no axis shorthand and no logical longhand is pushed, only
\* physical longhands that lower the pending logical slots, which may follow
\* the four-sided shorthand in the same flush.
FlushFoldsSlots ==
  /\ \A i \in 1..Len(last.flushes) :
       LET f == last.flushes[i]
           mk(id) == Typed(id, << Unwrap(f.pre[id]) >>)
       IN /\ f.out = f.physical \o f.block \o f.inline
          /\ IF AllFour(f.pre) /\ Gate(f)
             THEN f.physical = << RectOf(f.pre) >>
             ELSE ExactlyPresent(f.physical, f.pre, PhysicalIds, mk)
          /\ f.supported =>
               /\ AxisFolded(f.block, f.pre, "block_start", "block_end", "block_shorthand")
               /\ AxisFolded(f.inline, f.pre, "inline_start", "inline_end", "inline_shorthand")
          /\ ~f.supported =>
               ~HasId(f.block \o f.inline, LogicalIds \cup AxisShorthandIds \cup {"shorthand"})
  /\ Len(last.flushes) = 1 => IsPrefix(last.predest \o last.flushes[1].out, dest)

\* C6 witness: a flush that pushed the four-sided shorthand, and after it in
\* the same flush a physical longhand lowered from a logical slot
FlushFoldsSlotsWitness ==
  /\ Flushed
  /\ HasId(last.flushes[1].physical, {"shorthand"})
  /\ HasId(last.flushes[1].block, PhysicalIds)
  /\ IsPrefix(last.predest \o last.flushes[1].out, dest)

\* a pending logical slot lowered to a physical property: the value (for
\* Unparsed: the tokens) kept, the property id replaced
Lowered(slot, id) ==
  IF ~IsSome(slot) THEN << >>
  ELSE IF Unwrap(slot).unparsed THEN << UnparsedProp(id, Unwrap(slot).val) >>
  ELSE << Typed(id, Unwrap(slot).val) >>

\* both inline slots are present with equal values
InlineSameValue(h) ==
  /\ IsSome(h.inline_start) /\ IsSome(h.inline_end)
  /\ Unwrap(h.inline_start).unparsed = Unwrap(h.inline_end).unparsed
  /\ Unwrap(h.inline_start).val = Unwrap(h.inline_end).val

\* both inline slots are present with equal typed values
InlineSameTyped(h) ==
  InlineSameValue(h) /\ ~Unwrap(h.inline_start).unparsed

InlinePending(h) == IsSome(h.inline_start) \/ IsSome(h.inline_end)

\* C7: a flush with logical not supported and an inline slot pending, the two
\* not both present with equal values, pushes nothing for the inline axis to
\* dest and appends to the LTR buffer left:v for inline-start v, then right:w
\* for inline-end w, and to the RTL buffer right:v, then left:w.
InlineLoweredToDirRules ==
  /\ \A i \in 1..Len(last.flushes) :
       LET f == last.flushes[i]
       IN (~f.supported /\ InlinePending(f.pre) /\ ~InlineSameValue(f.pre)) =>
            /\ f.inline = << >>
            /\ ~HasId(f.out, {"left", "right"} \ {id \in PhysicalIds : IsSome(f.pre[id])})
            /\ f.ltr = Lowered(f.pre.inline_start, "left") \o Lowered(f.pre.inline_end, "right")
            /\ f.rtl = Lowered(f.pre.inline_start, "right") \o Lowered(f.pre.inline_end, "left")
  /\ Len(last.flushes) = 1 =>
       /\ ctx.ltr = last.prectx.ltr \o last.flushes[1].ltr
       /\ ctx.rtl = last.prectx.rtl \o last.flushes[1].rtl

\* C7 witness: a flush that lowered unequal inline-start and inline-end
InlineLoweredWitness ==
  /\ Flushed
  /\ ~last.flushes[1].supported
  /\ IsSome(last.flushes[1].pre.inline_start)
  /\ IsSome(last.flushes[1].pre.inline_end)
  /\ ~InlineSameValue(last.flushes[1].pre)
  /\ Len(ctx.ltr) = Len(last.prectx.ltr) + 2

\* C8 (as claimed): a flush with logical not supported and both inline slots
\* present with equal values pushes them to dest as left and right, in that
\* order, and adds nothing to the LTR/RTL buffers.
EqualInlineToDest ==
  \A i \in 1..Len(last.flushes) :
    LET f == last.flushes[i]
    IN (~f.supported /\ InlineSameValue(f.pre)) =>
         /\ f.inline = Lowered(f.pre.inline_start, "left")
                       \o Lowered(f.pre.inline_end, "right")
         /\ f.ltr = << >>
         /\ f.rtl = << >>

\* C8 (amended): a flush with logical not supported and both inline slots
\* present as typed values that are equal pushes them to dest as left and
\* right, in that order and with that value, and adds nothing to the LTR/RTL
\* buffers.
EqualTypedInlineToDest ==
  /\ \A i \in 1..Len(last.flushes) :
       LET f == last.flushes[i]
       IN (~f.supported /\ InlineSameTyped(f.pre)) =>
            /\ f.inline = << Typed("left", Unwrap(f.pre.inline_start).val),
                             Typed("right", Unwrap(f.pre.inline_end).val) >>
            /\ f.ltr = << >>
            /\ f.rtl = << >>
  /\ (Len(last.flushes) = 1 /\ ~last.flushes[1].supported
      /\ InlineSameTyped(last.flushes[1].pre)) =>
       /\ ctx.ltr = last.prectx.ltr
       /\ ctx.rtl = last.prectx.rtl
       /\ IsPrefix(last.predest \o last.flushes[1].out, dest)

\* C8 witness: a flush that lowered equal typed inline values into dest
EqualTypedInlineWitness ==
  /\ Flushed
  /\ ~last.flushes[1].supported
  /\ InlineSameTyped(last.flushes[1].pre)
  /\ Len(last.flushes[1].inline) = 2
  /\ Len(dest) >= Len(last.predest) + 2

\* the targets are set and lack the handler's logical feature
TargetsLackFeature ==
  /\ IsSome(HandlerFeature(name))
  /\ IsSome(ctx.targets)
  /\ ~is_compatible(Unwrap(HandlerFeature(name)), Unwrap(ctx.targets))

\* C9 (as claimed): InsetHandler never pushes the four-sided shorthand to dest
\* when the targets lack LogicalInset; the other handlers push their
\* four-sided shorthand whenever all four physical slots are present.
InsetGatedByTargets ==
  /\ (name = "InsetHandler" /\ TargetsLackFeature) => ~HasId(dest, {"shorthand"})
  /\ name # "InsetHandler" =>
       \A i \in 1..Len(last.flushes) :
         AllFour(last.flushes[i].pre) =>
           last.flushes[i].physical = << RectOf(last.flushes[i].pre) >>

\* C9 (amended): a flush of InsetHandler pushes no four-sided shorthand when
\* context.is_supported(LogicalInset) is false (the targets lack it and the
\* context is not StyleAttribute); with all four physical slots pending it
\* pushes the four longhands instead. The only four-sided shorthand the
\* handler then appends to dest is an Unparsed one it was given, unchanged.
\* The other handlers push their four-sided shorthand whenever all four
\* physical slots are present, whatever the targets.
InsetGatedBySupport ==
  /\ name = "InsetHandler" =>
       /\ \A i \in 1..Len(last.flushes) :
            LET f == last.flushes[i]
                mk(id) == Typed(id, << Unwrap(f.pre[id]) >>)
            IN ~f.supported =>
                 /\ ~HasId(f.out, {"shorthand"})
                 /\ ExactlyPresent(f.physical, f.pre, PhysicalIds, mk)
       /\ ~LogicalSupported(name, ctx) =>
            \A j \in 1..Len(dest) :
              dest[j].id = "shorthand" =>
                /\ dest[j].unparsed
                /\ \E k \in 1..Len(input) : input[k] = dest[j]
  /\ name # "InsetHandler" =>
       \A i \in 1..Len(last.flushes) :
         AllFour(last.flushes[i].pre) =>
           last.flushes[i].physical = << RectOf(last.flushes[i].pre) >>

\* C9 witness: InsetHandler flushed four pending physical slots as four
\* longhands because LogicalInset is not supported
InsetGatedWitness ==
  /\ name = "InsetHandler"
  /\ Flushed
  /\ ~last.flushes[1].supported
  /\ AllFour(last.flushes[1].pre)
  /\ Len(last.flushes[1].physical) = 4
  /\ IsPrefix(last.predest \o last.flushes[1].out, dest)

\* the declarations in dest and in the LTR/RTL buffers
Everywhere == dest \o ctx.ltr \o ctx.rtl

\* C10 (as claimed): when the targets lack the handler's logical feature, no
\* property with a logical id of the family, typed or Unparsed, occurs in dest
\* or in the LTR/RTL buffers after finalize.
NoLogicalIdForLegacyTargets ==
  (BlockDone /\ TargetsLackFeature) =>
    ~HasId(Everywhere, LogicalIds \cup AxisShorthandIds)

\* C10 (amended): when context.is_supported(feature) is false (the targets
\* lack the handler's logical feature and the context is not StyleAttribute),
\* no logical longhand, typed or Unparsed, and no typed two-axis shorthand
\* occurs in dest or in the LTR/RTL buffers; the only logical id left is that
\* of an Unparsed two-axis shorthand the handler was given, in dest unchanged.
\* A flush rewrites block-start to top and block-end to bottom with the value
\* preserved, an Unparsed value keeping its tokens.
LogicalLoweredWhenUnsupported ==
  /\ ~LogicalSupported(name, ctx) =>
       \A j \in 1..Len(Everywhere) :
         Everywhere[j].id \in LogicalIds \cup AxisShorthandIds =>
           /\ Everywhere[j].unparsed
           /\ Everywhere[j].id \in AxisShorthandIds
           /\ \E k \in 1..Len(input) : input[k] = Everywhere[j]
           /\ j <= Len(dest)
  /\ \A i \in 1..Len(last.flushes) :
       LET f == last.flushes[i]
       IN ~f.supported =>
            f.block = Lowered(f.pre.block_start, "top")
                      \o Lowered(f.pre.block_end, "bottom")

\* C10 witness: logical not supported, and a flush lowered an Unparsed
\* block-start and a typed block-end into dest
LogicalLoweredWitness ==
  /\ Flushed
  /\ ~last.flushes[1].supported
  /\ IsSome(last.flushes[1].pre.block_start)
  /\ Unwrap(last.flushes[1].pre.block_start).unparsed
  /\ IsSome(last.flushes[1].pre.block_end)
  /\ Len(last.flushes[1].block) = 2
  /\ IsPrefix(last.predest \o last.flushes[1].out, dest)

\* ------------------------------------------------ claims on the context
\* C11: is_supported(feature) answers true in StyleAttribute context whatever
\* the feature and the targets; in every other context it answers true when
\* targets is absent and else what feature.is_compatible(targets) answers. The
\* call leaves the context as it was.
IsSupportedAnswer ==
  last.op = "is_supported" =>
    /\ last.ret =
         IF last.prectx.context = "StyleAttribute" THEN TRUE
         ELSE IF last.prectx.targets = None THEN TRUE
         ELSE is_compatible(last.feature, Unwrap(last.prectx.targets))
    /\ ctx = last.prectx

\* C11 witness: is_supported answered true in a style attribute for targets
\* that lack the feature
IsSupportedWitness ==
  /\ last.op = "is_supported"
  /\ ctx.context = "StyleAttribute"
  /\ ctx.targets = Some(LegacyBrowsers)
  /\ last.feature = "LogicalInset"
  /\ last.ret

\* a step that is a call of add_conditional_property or add_unparsed_fallbacks
AddsConditional ==
  last'.op \in {"add_conditional_property", "add_unparsed_fallbacks"}

\* C13: a call of add_conditional_property or add_unparsed_fallbacks made
\* while the context is not StyleRule leaves the supports buffer (and the rest
\* of the context) unchanged, so that get_supports_rules returns no rule if
\* the buffer was empty; the supports buffer grows only in StyleRule context.
SupportsOnlyForStyleRules ==
  [][ /\ (AddsConditional /\ ctx.context # "StyleRule") =>
           /\ ctx'.supports = ctx.supports
           /\ ctx' = ctx
           /\ ctx.supports = << >> => get_supports_rules(ctx', TheStyleRule) = << >>
      /\ SupportsSize(ctx'.supports) > SupportsSize(ctx.supports) =>
           (AddsConditional /\ ctx.context = "StyleRule")
    ]_vars

\* C13 witness: add_unparsed_fallbacks was called with two fallbacks in a
\* style attribute, with targets set, and the supports buffer is empty
SupportsOnlyForStyleRulesWitness ==
  /\ last.op = "add_unparsed_fallbacks"
  /\ last.fallbacks = 2
  /\ ctx.context = "StyleAttribute"
  /\ IsSome(ctx.targets)
  /\ ctx.supports = << >>

\* C12: in StyleAttribute context, whatever the targets, the LTR and RTL
\* buffers stay empty and every flush emits the pending logical properties to
\* dest in logical form: the axis shorthand for two typed longhands of an
\* axis, else the pending logical properties as they were stored.
StyleAttributeKeepsLogical ==
  ctx.context = "StyleAttribute" =>
    /\ ctx.ltr = << >>
    /\ ctx.rtl = << >>
    /\ \A i \in 1..Len(last.flushes) :
         LET f == last.flushes[i]
         IN /\ f.supported
            /\ f.ltr = << >>
            /\ f.rtl = << >>
            /\ AxisFolded(f.block, f.pre, "block_start", "block_end", "block_shorthand")
            /\ AxisFolded(f.inline, f.pre, "inline_start", "inline_end", "inline_shorthand")

\* C12 witness: in a style attribute, with targets that lack the logical
\* feature, a flush emitted a pending inline-start and block-end as they were
StyleAttributeWitness ==
  /\ ctx.context = "StyleAttribute"
  /\ ctx.targets = Some(LegacyBrowsers)
  /\ name = "MarginHandler"
  /\ BlockDone
  /\ Flushed
  /\ IsSome(last.flushes[1].pre.inline_start)
  /\ IsSome(last.flushes[1].pre.block_end)
  /\ HasId(dest, {"inline_start"})
  /\ HasId(dest, {"block_end"})

\* C14 (as claimed): while the context is Keyframes, whatever the targets, the
\* LTR and RTL buffers remain empty.
KeyframesNoLogicalRules ==
  ctx.context = "Keyframes" => (ctx.ltr = << >> /\ ctx.rtl = << >>)

\* the declarations of a list of rules, normal and important, nested included
RECURSIVE DeclsOfRules(_)
DeclsOfRules(rs) ==
  IF rs = << >> THEN << >>
  ELSE (IF Head(rs).type = "Supports" THEN DeclsOfRules(Head(rs).rules)
        ELSE Head(rs).declarations \o Head(rs).important_declarations)
       \o DeclsOfRules(Tail(rs))

\* the declarations of the supports buffer
RECURSIVE DeclsOfSupports(_)
DeclsOfSupports(supports) ==
  IF supports = << >> THEN << >>
  ELSE Head(supports).declarations \o Head(supports).important_declarations
       \o DeclsOfSupports(Tail(supports))

\* C15: right after get_logical_rules the LTR and RTL buffers are empty, right
\* after get_supports_rules the supports buffer is empty; a harvest of empty
\* buffers returns no rule; a harvest returns only declarations that were in
\* the buffer it takes, and a buffer only gets declarations by an add call:
\* what was added before a harvest is in no later harvest.
HarvestIsDestructive ==
  [][ /\ last'.op = "get_logical_rules" =>
           /\ ctx'.ltr = << >> /\ ctx'.rtl = << >>
           /\ DeclsOfRules(rules') = ctx.ltr \o ctx.rtl
           /\ (ctx.ltr = << >> /\ ctx.rtl = << >>) => rules' = << >>
      /\ last'.op = "get_supports_rules" =>
           /\ ctx'.supports = << >>
           /\ DeclsOfRules(rules') = DeclsOfSupports(ctx.supports)
           /\ ctx.supports = << >> => rules' = << >>
      /\ (ctx'.ltr # ctx.ltr \/ ctx'.rtl # ctx.rtl) =>
           last'.op \in {"add_logical_rule", "get_logical_rules"}
      /\ ctx'.supports # ctx.supports =>
           last'.op \in {"add_conditional_property", "get_supports_rules"}
    ]_vars

\* C15 witness: get_logical_rules returned two rules and left the LTR/RTL
\* buffers empty, the supports buffer still filled
HarvestIsDestructiveWitness ==
  /\ last.op = "get_logical_rules"
  /\ Len(rules) = 2
  /\ ctx.ltr = << >> /\ ctx.rtl = << >>
  /\ ctx.supports # << >>

\* rule r is the :dir() rule of the style rule for direction dir with
\* declarations decls
IsDirRule(r, dir, decls) ==
  /\ r.type = "Style"
  /\ Len(r.selectors) = Len(TheStyleRule.selectors)
  /\ \A i \in 1..Len(r.selectors) : r.selectors[i] = TheStyleRule.selectors[i] \o << dir >>
  /\ r.loc = TheStyleRule.loc
  /\ r.declarations = decls

\* C18: get_logical_rules returns the :dir(ltr) rule, then the :dir(rtl) rule,
\* each only for a non-empty buffer; each has the selectors of the style rule
\* with the :dir pseudo-class appended to every one, its location, and the
\* declarations of its buffer, which are in the order of the add_logical_rule
\* calls.
LogicalRulesShape ==
  [][ last'.op = "get_logical_rules" =>
        /\ Len(rules') = (IF ctx.ltr # << >> THEN 1 ELSE 0)
                         + (IF ctx.rtl # << >> THEN 1 ELSE 0)
        /\ ctx.ltr # << >> => IsDirRule(rules'[1], ":dir(ltr)", ctx.ltr)
        /\ ctx.rtl # << >> => IsDirRule(rules'[Len(rules')], ":dir(rtl)", ctx.rtl)
        /\ \A i \in 1..Len(ctx.ltr) : ctx.ltr[i].id = "left" /\ ctx.ltr[i].val = << i >>
        /\ \A i \in 1..Len(ctx.rtl) : ctx.rtl[i].id = "right" /\ ctx.rtl[i].val = << i >>
    ]_vars

\* C18 witness: get_logical_rules returned the two rules, three declarations
\* each
LogicalRulesShapeWitness ==
  /\ last.op = "get_logical_rules"
  /\ Len(rules) = 2
  /\ Len(rules[1].declarations) = 3
  /\ rules[1].selectors = << << "a", ":dir(ltr)" >>, << "b", ":dir(ltr)" >> >>
  /\ rules[2].selectors = << << "a", ":dir(rtl)" >>, << "b", ":dir(rtl)" >> >>

\* the positions (call numbers) of a declaration list are increasing
Increasing(decls) ==
  \A i, j \in 1..Len(decls) : i < j => decls[i].val[1] < decls[j].val[1]

\* the call number of the first declaration added to an entry
FirstOf(entry) ==
  LET ks == { (entry.declarations \o entry.important_declarations)[i].val[1] :
                i \in 1..(Len(entry.declarations) + Len(entry.important_declarations)) }
  IN CHOOSE k \in ks : \A m \in ks : k <= m

\* C19: no two entries of the supports buffer have equal conditions; the
\* entries are in the order of the first insertion of their condition; every
\* added property is in exactly one entry, the one of its condition, in the
\* important list iff is_important was true at the call, in call order; and
\* get_supports_rules yields one Supports rule per entry, in that order.
SupportsDeduplicated ==
  LET sup == ctx.supports
      all == DeclsOfSupports(sup)
      out == get_supports_rules(ctx, TheStyleRule)
  IN /\ \A i, j \in 1..Len(sup) : i # j => sup[i].condition # sup[j].condition
     /\ \A i, j \in 1..Len(sup) : i < j => FirstOf(sup[i]) < FirstOf(sup[j])
     /\ { all[i].val[1] : i \in 1..Len(all) } = 1..Len(all)
     /\ \A i \in 1..Len(sup) :
          /\ Len(sup[i].declarations) + Len(sup[i].important_declarations) > 0
          /\ Increasing(sup[i].declarations)
          /\ Increasing(sup[i].important_declarations)
          /\ \A k \in 1..Len(sup[i].declarations) :
               /\ sup[i].declarations[k].condition = sup[i].condition
               /\ ~sup[i].declarations[k].important
          /\ \A k \in 1..Len(sup[i].important_declarations) :
               /\ sup[i].important_declarations[k].condition = sup[i].condition
               /\ sup[i].important_declarations[k].important
     /\ Len(out) = Len(sup)
     /\ \A i \in 1..Len(sup) :
          /\ out[i].type = "Supports"
          /\ out[i].condition = sup[i].condition
          /\ Len(out[i].rules) = 1
          /\ out[i].rules[1].declarations = sup[i].declarations
          /\ out[i].rules[1].important_declarations = sup[i].important_declarations
          /\ out[i].rules[1].selectors = TheStyleRule.selectors

\* C19 witness: two entries, the first of which received a normal and an
\* important property, one of them after the second entry was created
SupportsDeduplicatedWitness ==
  /\ Len(ctx.supports) = 2
  /\ Len(ctx.supports[1].declarations) = 1
  /\ Len(ctx.supports[1].important_declarations) = 1
  /\ FirstOf(ctx.supports[2]) = 2

\* ------------------------------------------- claims on order and on frame
\* the physical-axis outputs of a flush: the four-sided shorthand, or the
\* pending top, bottom, left, right longhands
PhysicalAxis(f) ==
  IF AllFour(f.pre) /\ Gate(f) THEN << RectOf(f.pre) >>
  ELSE LET one(id) == IF IsSome(f.pre[id]) THEN << Typed(id, << Unwrap(f.pre[id]) >>) >>
                      ELSE << >>
       IN one("top") \o one("bottom") \o one("left") \o one("right")

\* the outputs to dest of a logical axis, start before end: the axis
\* shorthand or the pending properties when logical is supported, else their
\* lowering to the two physical ids (for the inline axis only when equal)
LogicalAxis(f, startId, endId, shorthand, lowStart, lowEnd, lowers) ==
  IF f.supported
  THEN IF BothTyped(f.pre, startId, endId)
       THEN << Typed(shorthand, << Unwrap(f.pre[startId]).val[1],
                                  Unwrap(f.pre[endId]).val[1] >>) >>
       ELSE f.pre[startId] \o f.pre[endId]
  ELSE IF lowers THEN Lowered(f.pre[startId], lowStart) \o Lowered(f.pre[endId], lowEnd)
  ELSE << >>

BlockAxis(f) ==
  LogicalAxis(f, "block_start", "block_end", "block_shorthand", "top", "bottom", TRUE)

InlineAxis(f) ==
  LogicalAxis(f, "inline_start", "inline_end", "inline_shorthand", "left", "right",
              InlineSameTyped(f.pre))

\* C16: what a flush pushes to dest is all its physical-axis outputs, then all
\* its block-axis outputs (start before end), then all its inline-axis outputs
\* (start before end), whatever the order in which the slots were filled.
FlushOrder ==
  /\ \A i \in 1..Len(last.flushes) :
       LET f == last.flushes[i]
       IN f.out = PhysicalAxis(f) \o BlockAxis(f) \o InlineAxis(f)
  /\ Len(last.flushes) = 1 =>
       LET f == last.flushes[1]
       IN IsPrefix(last.predest \o PhysicalAxis(f) \o BlockAxis(f) \o InlineAxis(f), dest)

\* C16 witness: a flush pushed a four-sided shorthand and then the lowered
\* equal inline values, the inline axis having been filled after the
\* physical slots
FlushOrderWitness ==
  /\ Flushed
  /\ Len(PhysicalAxis(last.flushes[1])) = 1
  /\ Len(InlineAxis(last.flushes[1])) = 2
  /\ ~last.flushes[1].supported
  /\ Len(dest) = Len(last.predest) + 3
  /\ dest[Len(dest)].id = "right"

\* C16 witness of the block axis coming before the inline axis when the
\* inline slot was filled first
FlushOrderBlockInline ==
  /\ Flushed
  /\ Len(input) = 2
  /\ input[1].id = "inline_start" /\ input[2].id = "block_start"
  /\ last.flushes[1].supported
  /\ Len(dest) = 2
  /\ dest[1].id = "block_start" /\ dest[2].id = "inline_start"

\* C17 (as claimed): after finalize the handler is as a newly created one,
\* and the dest and the side-outputs of the block are those a newly created
\* handler produces for the block's declarations with the same targets and
\* context.
HandlerAsNewPerBlock ==
  BlockDone =>
    /\ handler = DefaultHandler
    /\ dest = Minify(name, BlockContext, input).dest
    /\ ctx.ltr = Minify(name, BlockContext, input).ctx.ltr
    /\ ctx.rtl = Minify(name, BlockContext, input).ctx.rtl

\* the output part of C17 alone: dest and side-outputs depend only on the
\* block's declarations, the targets and the context
OutputOfBlockOnly ==
  BlockDone =>
    /\ dest = Minify(name, BlockContext, input).dest
    /\ ctx.ltr = Minify(name, BlockContext, input).ctx.ltr
    /\ ctx.rtl = Minify(name, BlockContext, input).ctx.rtl

\* C20: handle_property called with a property outside the family, typed or
\* Unparsed, returns false, runs no flush, and leaves the handler, dest and
\* the context as they were.
RejectedLeavesAll ==
  (last.op = "handle_property" /\ Unwrap(last.property).id \notin FamilyIds) =>
    /\ ~last.ret
    /\ last.flushes = << >>
    /\ handler = last.pre
    /\ dest = last.predest
    /\ ctx = last.prectx

\* C20 witness: an Unparsed property outside the family was rejected while a
\* logical slot was pending
RejectedLeavesAllWitness ==
  /\ last.op = "handle_property"
  /\ Unwrap(last.property) = UnparsedProp(OtherId, << 7 >>)
  /\ ~last.ret
  /\ handler.has_any
  /\ IsSome(handler.inline_start)
  /\ ~LogicalSupported(name, ctx)

\* ---------------------------------- claims on the arms of handle_property
\* the last operation accepted the typed four-sided shorthand
AcceptedShorthand ==
  /\ last.op = "handle_property"
  /\ ~Unwrap(last.property).unparsed
  /\ Unwrap(last.property).id = "shorthand"

\* C21: accepting a typed four-sided shorthand sets the four physical slots
\* to its components (top, right, bottom, left), empties the four logical
\* slots and sets has_any, whatever the category; dest and the context are as
\* before, no flush runs, and the category is unchanged.
ShorthandStoresInOneStep ==
  AcceptedShorthand =>
    LET val == Unwrap(last.property).val
    IN /\ last.ret
       /\ handler.top = Some(val[1]) /\ handler.right = Some(val[2])
       /\ handler.bottom = Some(val[3]) /\ handler.left = Some(val[4])
       /\ \A id \in LogicalIds : handler[id] = None
       /\ handler.has_any
       /\ handler.category = last.pre.category
       /\ dest = last.predest
       /\ ctx = last.prectx
       /\ last.flushes = << >>

\* C21 witness: the shorthand was accepted in category Logical with a logical
\* slot and a physical slot pending
ShorthandStoresWitness ==
  /\ AcceptedShorthand
  /\ last.pre.category = Logical
  /\ IsSome(last.pre.block_start) \/ IsSome(last.pre.inline_start)
  /\ handler.category = Logical
  /\ handler.block_start = None /\ handler.inline_start = None

\* the last operation was handle_property with an Unparsed property of the
\* family
UnparsedOfFamily ==
  /\ last.op = "handle_property"
  /\ Unwrap(last.property).unparsed
  /\ Unwrap(last.property).id \in FamilyIds

\* what the flush of the last operation pushed to dest, if one ran
FlushedOut == IF last.flushes = << >> THEN << >> ELSE last.flushes[1].out

\* C22: an Unparsed property of the family is accepted. With a logical
\* longhand id it is stored in its slot as the typed longhand is: a flush
\* first iff the category is not Logical (and something is pending), then
\* category Logical. With another family id all that is pending is flushed to
\* dest, then the property is appended to dest unchanged, as its last element;
\* all slots are empty afterwards and the category is unchanged.
UnparsedAccepted ==
  UnparsedOfFamily =>
    LET p == Unwrap(last.property)
        ran == IF p.id \in LogicalIds
               THEN last.pre.category # Logical /\ last.pre.has_any
               ELSE last.pre.has_any
    IN /\ last.ret
       /\ Len(last.flushes) = (IF ran THEN 1 ELSE 0)
       /\ ran => last.flushes[1].pre = last.pre
       /\ p.id \in LogicalIds =>
            /\ handler = [(IF ran THEN TakeAll(last.pre) ELSE last.pre)
                            EXCEPT ![p.id] = Some(p), !.category = Logical,
                                   !.has_any = TRUE]
            /\ dest = last.predest \o FlushedOut
       /\ p.id \notin LogicalIds =>
            /\ dest = last.predest \o FlushedOut \o << p >>
            /\ \A id \in PhysicalIds \cup LogicalIds : handler[id] = None
            /\ ~handler.has_any
            /\ handler.category = last.pre.category

\* C22 witness: an Unparsed four-sided shorthand was given while a slot was
\* pending: the slot was flushed and the shorthand follows it in dest
UnparsedAcceptedWitness ==
  /\ UnparsedOfFamily
  /\ Unwrap(last.property).id = "shorthand"
  /\ Flushed
  /\ Len(dest) >= 2
  /\ dest[Len(dest)] = Unwrap(last.property)

\* C22 witness of the logical case: an Unparsed inline-start was stored after
\* a flush of a pending physical slot
UnparsedStoredWitness ==
  /\ UnparsedOfFamily
  /\ Unwrap(last.property).id = "inline_start"
  /\ Flushed
  /\ handler.inline_start = last.property

\* C24: has_any holds iff one of the eight slots is occupied; in category
\* Physical the four logical slots are empty; and when a logical and a
\* physical slot are occupied together, all four physical slots are.
SlotCategoryInvariant ==
  /\ handler.has_any <=> \E id \in PhysicalIds \cup LogicalIds : IsSome(handler[id])
  /\ handler.category = Physical => \A id \in LogicalIds : handler[id] = None
  /\ ((\E id \in LogicalIds : IsSome(handler[id]))
      /\ (\E id \in PhysicalIds : IsSome(handler[id]))) => AllFour(handler)

\* C24 witness: a logical slot and the four physical slots are occupied
SlotCategoryWitness ==
  /\ AllFour(handler)
  /\ IsSome(handler.inline_end)
  /\ handler.category = Logical
  /\ handler.has_any

\* C25: the LTR and RTL buffers have the same length in every state, and
\* get_logical_rules returns no rule or exactly two, the :dir(ltr) and the
\* :dir(rtl) rule, with the same number of declarations.
BuffersSameLength ==
  /\ Len(ctx.ltr) = Len(ctx.rtl)
  /\ last.op = "get_logical_rules" =>
       \/ rules = << >>
       \/ /\ Len(rules) = 2
          /\ Len(rules[1].declarations) = Len(rules[2].declarations)
          /\ \A i \in 1..Len(rules[1].selectors) :
               rules[1].selectors[i][Len(rules[1].selectors[i])] = ":dir(ltr)"
          /\ \A i \in 1..Len(rules[2].selectors) :
               rules[2].selectors[i][Len(rules[2].selectors[i])] = ":dir(rtl)"

\* C25 witness: get_logical_rules returned two rules of two declarations
BuffersSameLengthWitness ==
  /\ last.op = "get_logical_rules"
  /\ Len(rules) = 2
  /\ Len(rules[1].declarations) = 2
  /\ Len(rules[2].declarations) = 2

\* ------------------------------------------------ claim on the pre-scan
\* the positions of the top-level CustomMedia rules named n
DefinitionsOf(n) ==
  { i \in 1..Len(sheet.rules) :
      sheet.rules[i].type = "CustomMedia" /\ sheet.rules[i].name = n }

\* C23: StyleSheet::minify builds the @custom-media table exactly when the
\* parser option custom_media is set, targets are set and they do not support
\* CustomMediaQueries; the table then has an entry exactly for the names of
\* the top-level CustomMedia rules and maps a name to its last definition.
CustomMediaTable ==
  last.op = "minify" =>
    /\ IsSome(custom_media) <=>
         /\ sheet.options.custom_media
         /\ ctx.targets # None
         /\ ~is_compatible("CustomMediaQueries", Unwrap(ctx.targets))
    /\ IsSome(custom_media) =>
         LET table == Unwrap(custom_media)
         IN /\ DOMAIN table = { n \in {"n1", "n2", ""} : DefinitionsOf(n) # {} }
            /\ \A n \in DOMAIN table :
                 \E i \in DefinitionsOf(n) :
                   /\ \A j \in DefinitionsOf(n) : j <= i
                   /\ table[n] = sheet.rules[i]

\* C23 witness: the table was built for a sheet that defines n1 twice, and
\* holds the second definition
CustomMediaTableWitness ==
  /\ last.op = "minify"
  /\ IsSome(custom_media)
  /\ sheet.rules = << CustomMedia("n1", "q1"), CustomMedia("n1", "q2") >>
  /\ Unwrap(custom_media)["n1"].query = "q2"

\* C23 witness of a nested definition: the table was built and has no entry
\* for a CustomMedia rule nested in a Media rule
CustomMediaNestedWitness ==
  /\ last.op = "minify"
  /\ IsSome(custom_media)
  /\ Len(sheet.rules) = 2
  /\ sheet.rules[1] = CustomMedia("n2", "q1")
  /\ sheet.rules[2].type = "Media"
  /\ DOMAIN Unwrap(custom_media) = {"n2"}

====
